---- MODULE Spec2Model ----
(***************************************************************************)
(* The source-map composition and lookup engine of turbopack-core          *)
(* (crates/turbopack-core/src/source_map/mod.rs): the SourceMap value      *)
(* (Regular | Sectioned), Token conversion, to_rope and lookup_token.      *)
(*                                                                         *)
(* `cells` is the store of SourceMap values (a Vc<SourceMap> is an index   *)
(* into it; a section's `map` always refers to an earlier cell).  Maps are *)
(* immutable, so a behaviour builds the store and then follows one call on *)
(* the map built last (every earlier map was the last one before): `call`  *)
(* is a lookup_token call with its result, `task` the state of a to_rope   *)
(* call, whose child serializations complete one by one in any order.      *)
(*                                                                         *)
(* Coordinates stay far below 2^32, so the `as u32` / `as usize` casts of  *)
(* lines 83-96 and 203-206 are value preserving here.                      *)
(***************************************************************************)
EXTENDS Integers, Sequences, FiniteSets, TLC

VARIABLES cells, call, task

vars == <<cells, call, task>>

(***************************************************************************)
(* Bounds of the model.                                                    *)
(***************************************************************************)
\* lines and columns range over 0..MaxCoord
MaxCoord == 1
\* mappings per Regular map in SpecRegular
MaxTokens == 2
\* SourceMapSection values alive in the store
MaxSections == 2
\* Sectioned maps in the store
MaxSectioned == 2

Coord == 0 .. MaxCoord

(***************************************************************************)
(* Option<T>: None is the empty sequence, Some(x) is <<x>>.                *)
(***************************************************************************)
None == << >>

Some(x) == <<x>>

(***************************************************************************)
(* SourcePos and its derived lexicographic order.                          *)
(***************************************************************************)
SourcePos(l, c) == [line |-> l, column |-> c]

PosLt(a, b) == a.line < b.line \/ (a.line = b.line /\ a.column < b.column)

PosLe(a, b) == ~PosLt(b, a)

Positions == {SourcePos(l, c) : l \in Coord, c \in Coord}

(***************************************************************************)
(* A low-level mapping of the decoded map (sourcemap::Token), as built by  *)
(* SourceMapBuilder::add(dst_line, dst_col, src_line, src_col, source,     *)
(* name).                                                                  *)
(***************************************************************************)
RawToken(dl, dc, sl, sc, src, name) ==
    [dst_line |-> dl, dst_col |-> dc, src_line |-> sl, src_col |-> sc,
     source |-> src, name |-> name]

\* t.has_source()
HasSource(t) == t.source # None

\* impl From<sourcemap::Token> for Token: has_source() inverted
TokenFromInverted(t) ==
    IF ~HasSource(t)
    THEN [kind |-> "Original",
          generated_line |-> t.dst_line, generated_column |-> t.dst_col,
          original_file |-> "", original_line |-> t.src_line,
          original_column |-> t.src_col, name |-> t.name]
    ELSE [kind |-> "Synthetic",
          generated_line |-> t.dst_line, generated_column |-> t.dst_col]

\* impl From<sourcemap::Token> for Token
TokenFrom(t) ==
    IF HasSource(t)
    THEN [kind |-> "Original",
          generated_line |-> t.dst_line, generated_column |-> t.dst_col,
          original_file |-> t.source[1], original_line |-> t.src_line,
          original_column |-> t.src_col, name |-> t.name]
    ELSE [kind |-> "Synthetic",
          generated_line |-> t.dst_line, generated_column |-> t.dst_col]

(***************************************************************************)
(* SourceMap values.  A Regular map is the set of mappings of its decoded  *)
(* map; a Sectioned map is its list of sections [offset, map].             *)
(***************************************************************************)
\* SourceMap::new_regular
NewRegular(tokens) == [kind |-> "Regular", tokens |-> tokens, sections |-> << >>]

\* SourceMap::new_sectioned
NewSectioned(sections) == [kind |-> "Sectioned", tokens |-> {}, sections |-> sections]

\* SourceMapSection::new
SourceMapSection(offset, map) == [offset |-> offset, map |-> map]

\* empty() built with a source attached to its mapping
EmptyTokensWithSource == {RawToken(0, 0, 0, 0, Some("generated"), None)}

\* the mappings of SourceMap::empty(): builder.add(0, 0, 0, 0, None, None)
EmptyTokens == {RawToken(0, 0, 0, 0, None, None)}

\* SourceMap::empty()
EmptyMap == NewRegular(EmptyTokens)

(***************************************************************************)
(* The decoded map's own lookup (sourcemap crate): the mapping with the    *)
(* greatest generated position <= (line, col), which may lie on an earlier *)
(* line; None when no mapping precedes the position.                       *)
(***************************************************************************)
DstPos(t) == SourcePos(t.dst_line, t.dst_col)

CrateLookup(tokens, line, col) ==
    LET cands == {t \in tokens : PosLe(DstPos(t), SourcePos(line, col))}
    IN  IF cands = {} THEN None
        ELSE Some(CHOOSE t \in cands : \A u \in cands : PosLe(DstPos(u), DstPos(t)))

\* the filter of line 206 dropped
KeepTokenAlways(t, line) == TRUE

\* .filter(|t| t.get_dst_line() == line as u32)
KeepToken(t, line) == t.dst_line = line

(***************************************************************************)
(* lookup_token, Sectioned case.                                           *)
(***************************************************************************)
\* the comparison of line 219 made on lines only
GoLeftLineOnly(pos, offset) == pos.line < offset.line

\* the comparison of line 219 with <= for <
GoLeftOrEqual(pos, offset) == PosLe(pos, offset)

\* if pos < map.sections[mid].offset
GoLeft(pos, offset) == PosLt(pos, offset)

\* the while loop of lines 217-224; sections[mid] is 0-based in the source
RECURSIVE Search(_, _, _, _)
Search(sections, pos, low, high) ==
    IF low < high
    THEN LET mid == (low + high) \div 2
         IN  IF GoLeft(pos, sections[mid + 1].offset)
             THEN Search(sections, pos, low, mid)
             ELSE Search(sections, pos, mid + 1, high)
    ELSE low

\* if low > 0 && low <= len
Selected(low, len) == low > 0 /\ low <= len

\* the line handed on without the section's line taken off
LocalLineUnshifted(line, offset) == line

\* let l = line - offset.line
LocalLine(line, offset) == line - offset.line

\* the column reduced by the offset's column on every line
LocalColumnAlways(line, column, offset) == column - offset.column

\* let c = if line == offset.line { column - offset.column } else { column }
LocalColumn(line, column, offset) ==
    IF line = offset.line THEN column - offset.column ELSE column

(***************************************************************************)
(* One step of a lookup: the cell asked, the coordinates it was asked at,  *)
(* the binary search's final `low` (Sectioned) and what the decoded map's  *)
(* lookup returned before the filter (Regular).                            *)
(***************************************************************************)
Step(id, line, column, low, decoded) ==
    [cell |-> id, line |-> line, column |-> column, low |-> low, decoded |-> decoded]

(***************************************************************************)
(* SourceMap::lookup_token.  The result carries the OptionToken, the steps *)
(* of the recursion and whether an unsigned subtraction went below zero    *)
(* (a panic or a wrapped value, depending on the build).                   *)
(***************************************************************************)
RECURSIVE LookupToken(_, _, _, _)
LookupToken(store, id, line, column) ==
    LET m == store[id]
    IN  IF m.kind = "Regular"
        THEN LET decoded == CrateLookup(m.tokens, line, column)
                 kept == IF decoded # None /\ KeepToken(decoded[1], line)
                         THEN decoded ELSE None
             IN  [token |-> IF kept = None THEN None ELSE Some(TokenFrom(kept[1])),
                  overflow |-> FALSE,
                  path |-> <<Step(id, line, column, 0, decoded)>>]
        ELSE LET len == Len(m.sections)
                 low == Search(m.sections, SourcePos(line, column), 0, len)
                 here == Step(id, line, column, low, None)
             IN  IF Selected(low, len)
                 THEN LET section == m.sections[low]
                          l == LocalLine(line, section.offset)
                          c == LocalColumn(line, column, section.offset)
                      IN  IF l < 0 \/ c < 0
                          THEN [token |-> None, overflow |-> TRUE, path |-> <<here>>]
                          ELSE LET r == LookupToken(store, section.map, l, c)
                               IN  [r EXCEPT !.path = <<here>> \o r.path]
                 ELSE [token |-> None, overflow |-> FALSE, path |-> <<here>>]

(***************************************************************************)
(* Ropes: a rope is the sequence of the pieces appended to it.             *)
(***************************************************************************)
Lit(s) == [text |-> s]

\* r.0.to_writer(&mut bytes); Rope::from(bytes): the decoded map's own JSON
RegularJson(tokens) == <<[json |-> tokens]>>

Header == "{\n  \"version\": 3,\n  \"sections\": ["

Footer == "]\n}"

Digits == <<"0", "1", "2", "3", "4", "5", "6", "7", "8", "9">>

\* Display of a usize, as write!'s {} formats it
RECURSIVE ToDecimal(_)
ToDecimal(n) ==
    IF n < 10 THEN Digits[n + 1]
    ELSE ToDecimal(n \div 10) \o Digits[(n % 10) + 1]

\* write!(rope, "\n    {"offset": {"line": {}, "column": {}}, "map": ", ..)
EntryOpen(offset) ==
    "\n    {\"offset\": {\"line\": " \o ToDecimal(offset.line)
        \o ", \"column\": " \o ToDecimal(offset.column) \o "}, \"map\": "

\* the fast path taken when the offset is not (0, 0)
IsDegenerateInverted(sections) ==
    Len(sections) = 1 /\ sections[1].offset # SourcePos(0, 0)

\* if s.sections.len() == 1 { .. if s.offset == (0, 0) {
IsDegenerate(sections) ==
    Len(sections) = 1 /\ sections[1].offset = SourcePos(0, 0)

\* the for loop of lines 165-182 over the joined (offset, section_map) pairs
RECURSIVE WriteSections(_, _, _)
WriteSections(rope, joined, first_section) ==
    IF joined = << >> THEN rope
    ELSE LET offset == Head(joined)[1]
             section_map == Head(joined)[2]
             r1 == IF ~first_section THEN rope \o <<Lit(",")>> ELSE rope
             r2 == r1 \o <<Lit(EntryOpen(offset))>>
             r3 == r2 \o section_map
             r4 == r3 \o <<Lit("}")>>
         IN  WriteSections(r4, Tail(joined), FALSE)

\* SourceMap::to_rope as a function of the (immutable) map
RECURSIVE ToRope(_, _)
ToRope(store, id) ==
    LET m == store[id]
    IN  IF m.kind = "Regular" THEN RegularJson(m.tokens)
        ELSE IF IsDegenerate(m.sections) THEN ToRope(store, m.sections[1].map)
        ELSE WriteSections(<<Lit(Header)>>,
                           [i \in 1 .. Len(m.sections) |->
                               <<m.sections[i].offset, ToRope(store, m.sections[i].map)>>],
                           TRUE) \o <<Lit(Footer)>>

\* results collected in the order the futures complete
JoinSlotByCompletion(order, i) == Len(order) + 1

\* try_join: the i-th future's output is the i-th element of the result
JoinSlot(order, i) == i

(***************************************************************************)
(* State.                                                                  *)
(***************************************************************************)
NoCall == [op |-> "none", map |-> 0, line |-> 0, column |-> 0,
           result |-> [token |-> None, overflow |-> FALSE, path |-> << >>]]

Idle == [pc |-> "idle", map |-> 0, order |-> << >>, joined |-> << >>, rope |-> << >>]

\* a mapping at every position, each pointing at the same position of a.js
GridTokens == {RawToken(l, c, l, c, Some("a.js"), None) : l \in Coord, c \in Coord}

\* the store starts with one leaf: empty() or a decoded map
Init ==
    /\ cells \in {<<EmptyMap>>, <<NewRegular(GridTokens)>>}
    /\ call = NoCall
    /\ task = Idle

\* the map a behaviour's call is made on: the one built last
Top(store) == Len(store)

NumSectioned(store) == Cardinality({i \in 1 .. Len(store) : store[i].kind = "Sectioned"})

RECURSIVE TotalSections(_)
TotalSections(store) ==
    IF store = << >> THEN 0 ELSE Len(Head(store).sections) + TotalSections(Tail(store))

SectionLists(n, k) ==
    UNION {[1 .. j -> {SourceMapSection(o, m) : o \in Positions, m \in 1 .. n}] : j \in 0 .. k}

(***************************************************************************)
(* Actions.                                                                *)
(***************************************************************************)
\* SourceMap::new_sectioned(sections).cell(): any list, sorted or not
NewSectionedCell ==
    /\ call = NoCall /\ task = Idle
    /\ NumSectioned(cells) < MaxSectioned
    /\ \E sections \in SectionLists(Len(cells), MaxSections - TotalSections(cells)) :
          cells' = Append(cells, NewSectioned(sections))
    /\ UNCHANGED <<call, task>>

\* map.lookup_token(line, column)
LookupTokenCall ==
    /\ call = NoCall /\ task = Idle
    /\ \E line \in Coord, column \in Coord :
          LET id == Top(cells) IN
          call' = [op |-> "lookup_token", map |-> id, line |-> line, column |-> column,
                   result |-> LookupToken(cells, id, line, column)]
    /\ UNCHANGED <<cells, task>>

\* map.to_rope() up to its first suspension: `.try_join().await`
ToRopeStart ==
    /\ call = NoCall /\ task = Idle
    /\ LET id == Top(cells)
           m == cells[id]
       IN  IF m.kind = "Regular"
              THEN task' = [pc |-> "done", map |-> id, order |-> << >>, joined |-> << >>,
                            rope |-> RegularJson(m.tokens)]
              ELSE IF IsDegenerate(m.sections)
              THEN task' = [pc |-> "done", map |-> id, order |-> << >>, joined |-> << >>,
                            rope |-> ToRope(cells, m.sections[1].map)]
              ELSE task' = [pc |-> "joining", map |-> id, order |-> << >>,
                            joined |-> [i \in 1 .. Len(m.sections) |-> << >>],
                            rope |-> <<Lit(Header)>>]
    /\ UNCHANGED <<cells, call>>

\* one child future `async move { Ok((s.offset, s.map.to_rope().await?)) }` completes
ChildDone ==
    /\ task.pc = "joining"
    /\ \E i \in 1 .. Len(cells[task.map].sections) :
          /\ \A k \in 1 .. Len(task.order) : task.order[k] # i
          /\ LET s == cells[task.map].sections[i]
             IN  task' = [task EXCEPT
                    !.joined[JoinSlot(task.order, i)] = <<s.offset, ToRope(cells, s.map)>>,
                    !.order = Append(task.order, i)]
    /\ UNCHANGED <<cells, call>>

\* the join resolves; the loop of lines 165-182 and the closing run to the end
ToRopeFinish ==
    /\ task.pc = "joining"
    /\ Len(task.order) = Len(cells[task.map].sections)
    /\ task' = [task EXCEPT
          !.pc = "done",
          !.rope = WriteSections(task.rope, task.joined, TRUE) \o <<Lit(Footer)>>]
    /\ UNCHANGED <<cells, call>>

Next ==
    \/ NewSectionedCell
    \/ LookupTokenCall
    \/ ToRopeStart
    \/ ChildDone
    \/ ToRopeFinish

Spec == Init /\ [][Next]_vars

(***************************************************************************)
(* Regular maps on their own: the store holds one Regular map, either      *)
(* empty() or a decoded map with up to MaxTokens mappings at distinct      *)
(* generated positions.                                                    *)
(***************************************************************************)
SourceInfos ==
    { [src_line |-> 0, src_col |-> 0, source |-> None, name |-> None],
      [src_line |-> 1, src_col |-> 0, source |-> Some("a.js"), name |-> None],
      [src_line |-> 0, src_col |-> 1, source |-> Some("b.js"), name |-> Some("f")] }

RawTokens ==
    {RawToken(l, c, i.src_line, i.src_col, i.source, i.name) :
        l \in Coord, c \in Coord, i \in SourceInfos}

RegularInputs ==
    {ts \in SUBSET RawTokens :
        /\ ts # {}
        /\ Cardinality(ts) <= MaxTokens
        /\ \A t, u \in ts : DstPos(t) = DstPos(u) => t = u}

InitRegular ==
    /\ cells \in {<<EmptyMap>>} \cup {<<NewRegular(ts)>> : ts \in RegularInputs}
    /\ call = NoCall
    /\ task = Idle

NextRegular == LookupTokenCall

SpecRegular == InitRegular /\ [][NextRegular]_vars

(***************************************************************************)
(* Vocabulary of the properties.                                           *)
(***************************************************************************)
IsLookup == call.op = "lookup_token"

Path == call.result.path

Result == call.result.token

StrictlyAscending(sections) ==
    \A i \in 1 .. Len(sections) - 1 : PosLt(sections[i].offset, sections[i + 1].offset)

Ascending(sections) ==
    \A i \in 1 .. Len(sections) - 1 : PosLe(sections[i].offset, sections[i + 1].offset)

\* the largest index whose offset is <= pos, 0 when there is none
LinearScan(sections, pos) ==
    LET hits == {i \in 1 .. Len(sections) : PosLe(sections[i].offset, pos)}
    IN  IF hits = {} THEN 0 ELSE CHOOSE i \in hits : \A j \in hits : j <= i

StepPos(st) == SourcePos(st.line, st.column)

TopMap == cells[Top(cells)]

\* C1: on a Sectioned map whose offsets are strictly ascending, at every level
\* of a lookup the binary search ends on the section a linear scan selects
\* (the largest i with offset_i <= p); with no such section the lookup stops
\* there with the empty result, otherwise it goes on into that section's map.
C1_BinarySearchIsLinearScan ==
    IsLookup =>
        \A k \in 1 .. Len(Path) :
            LET st == Path[k]
                m == cells[st.cell]
                want == LinearScan(m.sections, StepPos(st))
            IN  (m.kind = "Sectioned" /\ StrictlyAscending(m.sections)) =>
                    /\ st.low = want
                    /\ (want = 0) => (k = Len(Path) /\ Result = None)
                    /\ (want > 0) => (k < Len(Path) /\ Path[k + 1].cell = m.sections[want].map)

\* a lookup on two strictly ascending sections that ends on the first of them
C1_Witness ==
    /\ IsLookup
    /\ TopMap.kind = "Sectioned"
    /\ Len(TopMap.sections) >= 2
    /\ StrictlyAscending(TopMap.sections)
    /\ Path[1].low = 1
    /\ Len(Path) >= 2

\* C2: a Sectioned lookup that selects a section with offset (ol, oc) asks the
\* section's map at line - ol and at column - oc when line = ol, at the column
\* unchanged otherwise, and returns what that map returns there; with offset
\* (10,5), (10,5) (10,8) (11,2) become (0,0) (0,3) (1,2).
C2_CoordinateTranslation ==
    /\ LET o == SourcePos(10, 5)
       IN  /\ <<LocalLine(10, o), LocalColumn(10, 5, o)>> = <<0, 0>>
           /\ <<LocalLine(10, o), LocalColumn(10, 8, o)>> = <<0, 3>>
           /\ <<LocalLine(11, o), LocalColumn(11, 2, o)>> = <<1, 2>>
    /\ IsLookup =>
        \A k \in 1 .. Len(Path) :
            LET st == Path[k]
                m == cells[st.cell]
            IN  (m.kind = "Sectioned" /\ st.low > 0) =>
                    LET s == m.sections[st.low]
                        l == st.line - s.offset.line
                        c == IF st.line = s.offset.line
                             THEN st.column - s.offset.column ELSE st.column
                    IN  /\ k < Len(Path)
                        /\ Path[k + 1].cell = s.map
                        /\ Path[k + 1].line = l
                        /\ Path[k + 1].column = c
                        /\ k = 1 => Result = LookupToken(cells, s.map, l, c).token

\* a query on a later line of a section whose offset has a column: the column
\* is handed on unchanged
C2_Witness ==
    /\ IsLookup
    /\ Len(Path) >= 2
    /\ LET s == TopMap.sections[Path[1].low]
       IN  /\ s.offset.column > 0
           /\ call.line > s.offset.line
           /\ Path[2].line = call.line - s.offset.line
           /\ Path[2].column = call.column
    /\ Result # None

\* C5 as stated: a Sectioned lookup on an empty section list, or at a position
\* before the first section's offset, returns the empty result without asking
\* any nested map.
C5_EmptyBeforeFirstSection ==
    IsLookup =>
        \A k \in 1 .. Len(Path) :
            LET st == Path[k]
                m == cells[st.cell]
            IN  (/\ m.kind = "Sectioned"
                 /\ (m.sections = << >> \/ PosLt(StepPos(st), m.sections[1].offset))) =>
                    /\ k = Len(Path)
                    /\ Result = None
                    /\ ~call.result.overflow

\* C5 (amended): on a section list sorted ascending by offset, a Sectioned
\* lookup on an empty list, or at a position before the first section's
\* offset, returns the empty result without asking any nested map.
C5_EmptyBeforeFirstSectionSorted ==
    IsLookup =>
        \A k \in 1 .. Len(Path) :
            LET st == Path[k]
                m == cells[st.cell]
            IN  (/\ m.kind = "Sectioned"
                 /\ Ascending(m.sections)
                 /\ (m.sections = << >> \/ PosLt(StepPos(st), m.sections[1].offset))) =>
                    /\ k = Len(Path)
                    /\ Result = None
                    /\ ~call.result.overflow

\* a query before the first of two sorted sections: nothing, and no nested call
C5_Witness ==
    /\ IsLookup
    /\ TopMap.kind = "Sectioned"
    /\ Len(TopMap.sections) >= 2
    /\ Ascending(TopMap.sections)
    /\ PosLt(SourcePos(call.line, call.column), TopMap.sections[1].offset)
    /\ Result = None
    /\ Len(Path) = 1

\* C10: for every section list, sorted or not, the search ends with
\* 0 <= low <= len, a selected section's offset is <= the query position, and
\* neither line - offset.line nor (on the offset's line) column - offset.column
\* goes below zero.
C10_SelectedOffsetNotAfterQuery ==
    IsLookup =>
        /\ ~call.result.overflow
        /\ \A k \in 1 .. Len(Path) :
              LET st == Path[k]
                  m == cells[st.cell]
              IN  m.kind = "Sectioned" =>
                      /\ 0 <= st.low /\ st.low <= Len(m.sections)
                      /\ st.low > 0 =>
                            LET o == m.sections[st.low].offset
                            IN  /\ PosLe(o, StepPos(st))
                                /\ st.line - o.line >= 0
                                /\ st.line = o.line => st.column - o.column >= 0

\* a lookup that selects a section of a list that is not sorted
C10_Witness ==
    /\ IsLookup
    /\ TopMap.kind = "Sectioned"
    /\ ~Ascending(TopMap.sections)
    /\ Path[1].low > 0
    /\ Len(Path) >= 2

\* C4: on a Regular map, when the decoded map's lookup returns a mapping on
\* another generated line than the requested one, lookup_token returns the
\* empty result; every token a Regular lookup returns is on the requested line.
C4_WrongLineFiltered ==
    (IsLookup /\ cells[call.map].kind = "Regular") =>
        LET decoded == Path[1].decoded
        IN  /\ (decoded # None /\ decoded[1].dst_line # call.line) => Result = None
            /\ Result # None => Result[1].generated_line = call.line

\* the decoded map answers with an earlier line's mapping, the lookup with nothing
C4_Witness ==
    /\ IsLookup
    /\ cells[call.map].kind = "Regular"
    /\ Path[1].decoded # None
    /\ Path[1].decoded[1].dst_line < call.line
    /\ Result = None

\* C8: a non-empty lookup result is an Original token exactly when the mapping
\* found carries a source, and then carries the mapping's generated position,
\* source file, original position and optional name; otherwise it is a
\* Synthetic token carrying the generated position only.
C8_TokenVariantBySource ==
    (IsLookup /\ Result # None) =>
        LET decoded == Path[Len(Path)].decoded
        IN  /\ decoded # None
            /\ LET t == decoded[1]
                   r == Result[1]
               IN  /\ r.kind \in {"Original", "Synthetic"}
                   /\ (r.kind = "Original") <=> (t.source # None)
                   /\ t.source # None =>
                         r = [kind |-> "Original",
                              generated_line |-> t.dst_line,
                              generated_column |-> t.dst_col,
                              original_file |-> t.source[1],
                              original_line |-> t.src_line,
                              original_column |-> t.src_col,
                              name |-> t.name]
                   /\ t.source = None =>
                         r = [kind |-> "Synthetic",
                              generated_line |-> t.dst_line,
                              generated_column |-> t.dst_col]

\* a lookup that returns an Original token with a name
C8_Witness ==
    /\ IsLookup
    /\ Result # None
    /\ Result[1].kind = "Original"
    /\ Result[1].name # None
    /\ Result[1].original_line # Result[1].original_column

\* C9: on the map empty() returns, a lookup never yields an Original token: on
\* line 0 it yields the Synthetic token at (0,0) for every column, on every
\* later line it yields the empty result.
C9_EmptyMapLookup ==
    (IsLookup /\ cells[call.map] = EmptyMap) =>
        /\ call.line = 0 =>
              Result = Some([kind |-> "Synthetic", generated_line |-> 0,
                             generated_column |-> 0])
        /\ call.line > 0 => Result = None
        /\ Result # None => Result[1].kind # "Original"

\* a lookup on a later line of empty(): the (0,0) mapping is found and dropped
C9_Witness ==
    /\ IsLookup
    /\ cells[call.map] = EmptyMap
    /\ call.line > 0
    /\ Path[1].decoded # None
    /\ Result = None

TaskMap == cells[task.map]

\* exactly one section, at offset (0,0)
OneSectionAtOrigin(m) ==
    /\ m.kind = "Sectioned"
    /\ Len(m.sections) = 1
    /\ m.sections[1].offset = SourcePos(0, 0)

\* the map a chain of one-section-at-origin maps ends in
RECURSIVE ChainEnd(_, _)
ChainEnd(store, id) ==
    IF OneSectionAtOrigin(store[id]) THEN ChainEnd(store, store[id].sections[1].map) ELSE id

HasWrapper(rope) == \E i \in 1 .. Len(rope) : rope[i] = Lit(Header)

\* C3: to_rope of a Sectioned map with exactly one section at offset (0,0) is
\* the to_rope of that section's map, with no index-map wrapper of its own:
\* through any chain of such maps it is the text of the map the chain ends in,
\* and holds no "sections" array when that map is Regular.
C3_DegenerateIsNested ==
    (task.pc = "done" /\ OneSectionAtOrigin(TaskMap)) =>
        LET child == TaskMap.sections[1].map
            last == ChainEnd(cells, child)
        IN  /\ task.rope = ToRope(cells, child)
            /\ task.rope = ToRope(cells, last)
            /\ cells[last].kind = "Regular" =>
                  (task.rope = RegularJson(cells[last].tokens) /\ ~HasWrapper(task.rope))

\* to_rope finished on a one-section-at-origin map around another such map
C3_Witness ==
    /\ task.pc = "done"
    /\ OneSectionAtOrigin(TaskMap)
    /\ OneSectionAtOrigin(cells[TaskMap.sections[1].map])
    /\ ~HasWrapper(task.rope)

\* the entries of an index map from the i-th section on, commas between them
RECURSIVE ExpectedEntries(_, _, _)
ExpectedEntries(store, sections, i) ==
    IF i > Len(sections) THEN << >>
    ELSE (IF i > 1 THEN <<Lit(",")>> ELSE << >>)
            \o <<Lit(EntryOpen(sections[i].offset))>>
            \o ToRope(store, sections[i].map)
            \o <<Lit("}")>>
            \o ExpectedEntries(store, sections, i + 1)

\* C6: in the general Sectioned case, whatever the order in which the child
\* serializations complete, to_rope's output is the header, one entry per
\* section in ascending section index (offset line/column and nested text),
\* a comma between consecutive entries only, then the closing; as many entries
\* as sections.
C6_IndexMapInSectionOrder ==
    (/\ task.pc = "done"
     /\ TaskMap.kind = "Sectioned"
     /\ ~OneSectionAtOrigin(TaskMap)) =>
        /\ Len(task.joined) = Len(TaskMap.sections)
        /\ \A i \in 1 .. Len(task.joined) :
              task.joined[i] = <<TaskMap.sections[i].offset,
                                 ToRope(cells, TaskMap.sections[i].map)>>
        /\ task.rope = <<Lit(Header)>>
                          \o ExpectedEntries(cells, TaskMap.sections, 1)
                          \o <<Lit(Footer)>>

\* to_rope finished on two different sections whose second completed first
C6_Witness ==
    /\ task.pc = "done"
    /\ TaskMap.kind = "Sectioned"
    /\ Len(TaskMap.sections) >= 2
    /\ TaskMap.sections[1] # TaskMap.sections[2]
    /\ task.order[1] # 1
    /\ task.rope[Len(task.rope)] = Lit(Footer)

====
